---- MODULE Spec2Model ----
(***************************************************************************)
(* organi-flow-api: the tree-file variant of the organisational hierarchy. *)
(* The hierarchy is one nested tree kept in tree.json; a reparent request  *)
(* loads the whole tree, validates, detaches the employee, re-attaches it  *)
(* under the new manager and saves the whole tree back.                    *)
(*                                                                         *)
(* A node is the record [id, manager_id, children]: attributes.id,         *)
(* attributes.manager_id and the ordered children list of the JSON node.   *)
(* name and title are payload no handler reads or writes.                  *)
(* A Python reference to a node inside the loaded tree is its path: the    *)
(* sequence of child indices (1-based) leading to it from the root.        *)
(***************************************************************************)
EXTENDS Integers, Sequences, FiniteSets, TLC

VARIABLES
    file,    \* the content of tree.json (a tree; NoNode while it is torn)
    torn,    \* TRUE while tree.json is empty / partially written
    last,    \* single-worker deployment: the last request and its response
    pc,      \* multi-worker deployment: each worker's position in its handler
    local,   \* multi-worker deployment: each worker's request-local data
    nav      \* tree navigator harness: the input and result of one call

vars == <<file, torn, last, pc, local, nav>>

---------------------------------------------------------------------------
\* Bounds of the model.

\* number of employees in a pre-existing tree.json (sequential model)
NumNodes == 4
\* number of employees in a pre-existing tree.json (multi-worker model)
ConcNodes == 3
\* number of distinct ids used to label arbitrary (possibly ill-formed) trees
NavIds == 2

\* manager_id of the root: the sentinel of the seeded CEO
RootManagerId == 0
\* id of the seeded CEO
SeedId == 1

\* a value standing for "no node" (Python None) in record fields
NoNode == [id |-> 0 - 1, manager_id |-> 0 - 1, children |-> <<>>]

---------------------------------------------------------------------------
\* Paths: references into the loaded tree.

RECURSIVE NodeAt(_, _)
NodeAt(node, path) ==
    IF path = <<>> THEN node
    ELSE NodeAt(node.children[Head(path)], Tail(path))

RECURSIVE SetChildrenAt(_, _, _)
SetChildrenAt(node, path, cs) ==
    IF path = <<>> THEN [node EXCEPT !.children = cs]
    ELSE [node EXCEPT !.children[Head(path)] = SetChildrenAt(@, Tail(path), cs)]

RemoveIndex(s, i) == SubSeq(s, 1, i - 1) \o SubSeq(s, i + 1, Len(s))

NotFound == [found |-> FALSE, path |-> <<>>]

---------------------------------------------------------------------------
\* Tree navigator.

\* A lookup that returns the result of the first child unconditionally.
RECURSIVE find_first_child_only(_, _)
find_first_child_only(node, target_id) ==
    IF node.id = target_id THEN [found |-> TRUE, path |-> <<>>]
    ELSE IF node.children = <<>> THEN NotFound
    ELSE LET r == find_first_child_only(node.children[1], target_id)
         IN  IF r.found THEN [found |-> TRUE, path |-> <<1>> \o r.path]
             ELSE NotFound

RECURSIVE find_employee_in_tree(_, _)
RECURSIVE find_in_children(_, _, _)
\* the for loop of find_employee_in_tree, from child index i on
find_in_children(node, i, target_id) ==
    IF i > Len(node.children) THEN NotFound
    ELSE LET result == find_employee_in_tree(node.children[i], target_id)
         IN  IF result.found
             THEN [found |-> TRUE, path |-> <<i>> \o result.path]
             ELSE find_in_children(node, i + 1, target_id)

\* pre-order depth-first lookup; the node found is returned as its path
find_employee_in_tree(node, target_id) ==
    IF node.id = target_id THEN [found |-> TRUE, path |-> <<>>]
    ELSE find_in_children(node, 1, target_id)

\* A cycle test that looks at the node itself only.
is_descendant_self_only(parent_node, target_id) ==
    parent_node.id = target_id

RECURSIVE is_descendant(_, _)
is_descendant(parent_node, target_id) ==
    \/ parent_node.id = target_id
    \/ \E i \in 1..Len(parent_node.children) :
          is_descendant(parent_node.children[i], target_id)

\* A pop that returns the child but leaves it in the list.
pop_child_keep(tree, path, i) ==
    [node |-> NodeAt(tree, path).children[i], tree |-> tree]

\* current["children"].pop(i): current is the node at path
pop_child(tree, path, i) ==
    [node |-> NodeAt(tree, path).children[i],
     tree |-> SetChildrenAt(tree, path,
                            RemoveIndex(NodeAt(tree, path).children, i))]

FirstIndex(cs, target_id) ==
    LET hits == {i \in 1..Len(cs) : cs[i].id = target_id}
    IN  IF hits = {} THEN 0
        ELSE CHOOSE i \in hits : \A j \in hits : i <= j

\* the while loop of find_and_remove_employee; queue holds paths
RECURSIVE remove_loop(_, _, _)
remove_loop(tree, queue, target_id) ==
    IF queue = <<>> THEN [found |-> FALSE, node |-> NoNode, tree |-> tree]
    ELSE LET current == Head(queue)
             cs == NodeAt(tree, current).children
             i == FirstIndex(cs, target_id)
         IN  IF i # 0
             THEN LET p == pop_child(tree, current, i)
                  IN  [found |-> TRUE, node |-> p.node, tree |-> p.tree]
             ELSE remove_loop(tree,
                              Tail(queue) \o [k \in 1..Len(cs) |-> current \o <<k>>],
                              target_id)

\* A removal that takes the first match in pre-order instead of breadth-first.
remove_preorder(tree, target_id) ==
    LET r == find_employee_in_tree(tree, target_id)
    IN  IF tree.id = target_id \/ ~r.found
        THEN [found |-> FALSE, node |-> NoNode, tree |-> tree]
        ELSE LET p == pop_child(tree, SubSeq(r.path, 1, Len(r.path) - 1),
                                r.path[Len(r.path)])
             IN  [found |-> TRUE, node |-> p.node, tree |-> p.tree]

find_and_remove_employee(tree, target_id) ==
    IF tree.id = target_id
    THEN [found |-> FALSE, node |-> NoNode, tree |-> tree]
    ELSE remove_loop(tree, <<<<>>>>, target_id)

\* An attach that puts the employee first in the manager's list.
add_employee_first(tree, manager_id, employee_node) ==
    LET manager_node == find_employee_in_tree(tree, manager_id)
    IN  IF manager_node.found
        THEN [ok |-> TRUE,
              tree |-> SetChildrenAt(tree, manager_node.path,
                          <<employee_node>> \o NodeAt(tree, manager_node.path).children)]
        ELSE [ok |-> FALSE, tree |-> tree]

\* ok = FALSE is the ValueError
add_employee_to_manager(tree, manager_id, employee_node) ==
    LET manager_node == find_employee_in_tree(tree, manager_id)
    IN  IF manager_node.found
        THEN [ok |-> TRUE,
              tree |-> SetChildrenAt(tree, manager_node.path,
                          Append(NodeAt(tree, manager_node.path).children,
                                 employee_node))]
        ELSE [ok |-> FALSE, tree |-> tree]

---------------------------------------------------------------------------
\* Reparent operation: POST /update-employee-manager.

Exit(status, exit, tree, save, located, removed) ==
    [status |-> status, exit |-> exit, tree |-> tree, save |-> save,
     located |-> located, removed |-> removed]

\* Validation with the self-manager test made before the manager lookup.
validate_self_first(tree, id, new_manager_id) ==
    IF id = new_manager_id THEN "400_self"
    ELSE IF ~find_employee_in_tree(tree, new_manager_id).found THEN "404_manager"
    ELSE IF ~find_employee_in_tree(tree, id).found THEN "404_employee"
    ELSE IF is_descendant(NodeAt(tree, find_employee_in_tree(tree, id).path),
                          new_manager_id)
    THEN "400_loop"
    ELSE "ok"

\* the four validations, in the order the handler makes them
validate(tree, id, new_manager_id) ==
    LET new_manager_node == find_employee_in_tree(tree, new_manager_id)
        employee_node_in_tree == find_employee_in_tree(tree, id)
    IN  IF ~new_manager_node.found THEN "404_manager"
        ELSE IF id = new_manager_id THEN "400_self"
        ELSE IF ~employee_node_in_tree.found THEN "404_employee"
        ELSE IF is_descendant(NodeAt(tree, employee_node_in_tree.path),
                              new_manager_id)
        THEN "400_loop"
        ELSE "ok"

\* An update that leaves the stored manager_id as it was.
keep_manager_id(employee_node, new_manager_id) == employee_node

\* employee_node["attributes"]["manager_id"] = update_data.new_manager_id
set_manager_id(employee_node, new_manager_id) ==
    [employee_node EXCEPT !.manager_id = new_manager_id]

StatusOf(exit) ==
    CASE exit = "404_manager" -> 404
      [] exit = "400_self" -> 400
      [] exit = "404_employee" -> 404
      [] exit = "400_loop" -> 400
      [] exit = "404_removed" -> 404
      [] exit = "500_attach" -> 500
      [] exit = "200" -> 200

\* The handler from the loaded tree up to (not including) save_tree: the exit
\* taken, the in-memory tree at that point, and whether save_tree is called.
update_employee_manager(tree, id, new_manager_id) ==
    LET v == validate(tree, id, new_manager_id)
    IN  IF v # "ok" THEN Exit(StatusOf(v), v, tree, FALSE, NoNode, NoNode)
        ELSE
        LET located == NodeAt(tree, find_employee_in_tree(tree, id).path)
            rem == find_and_remove_employee(tree, id)
        IN  IF ~rem.found
            THEN Exit(404, "404_removed", rem.tree, FALSE, located, NoNode)
            ELSE
            LET employee_node == set_manager_id(rem.node, new_manager_id)
                att == add_employee_to_manager(rem.tree, new_manager_id,
                                               employee_node)
            IN  IF ~att.ok
                THEN Exit(500, "500_attach", att.tree, FALSE, located, rem.node)
                ELSE Exit(200, "200", att.tree, TRUE, located, rem.node)

---------------------------------------------------------------------------
\* Trees a store can hold.

RECURSIVE TreesN(_, _, _)
RECURSIVE ForestsN(_, _, _)
\* all ordered forests of k nodes labelled from ids, each tree managed by m
ForestsN(k, ids, m) ==
    IF k = 0 THEN {<<>>}
    ELSE UNION {{<<t>> \o f : t \in TreesN(j, ids, m),
                              f \in ForestsN(k - j, ids, m)} : j \in 1..k}

\* all trees of n nodes labelled from ids whose root reports to m and whose
\* every other node's manager_id is its parent's id
TreesN(n, ids, m) ==
    UNION {{[id |-> r, manager_id |-> m, children |-> f] :
               f \in ForestsN(n - 1, ids, r)} : r \in ids}

RECURSIVE IdSeq(_)
RECURSIVE IdSeqOfAll(_, _)
IdSeqOfAll(cs, i) ==
    IF i > Len(cs) THEN <<>> ELSE IdSeq(cs[i]) \o IdSeqOfAll(cs, i + 1)

\* the ids of a tree, one entry per node
IdSeq(node) == <<node.id>> \o IdSeqOfAll(node.children, 1)

IdsOf(node) == LET ids == IdSeq(node) IN {ids[i] : i \in 1..Len(ids)}

UniqueIds(node) == Cardinality(IdsOf(node)) = Len(IdSeq(node))

\* the well-formed trees over exactly the ids 1..n, rooted at the CEO's id
WellFormedTrees(n) ==
    {t \in TreesN(n, 1..n, RootManagerId) : UniqueIds(t) /\ t.id = SeedId}

\* the tree the lifespan hook writes when tree.json does not exist
SeedTree == [id |-> SeedId, manager_id |-> RootManagerId, children |-> <<>>]

\* lifespan: an existing tree.json is kept, a missing one is seeded
lifespan(exists, content) == IF exists THEN content ELSE SeedTree

\* load_tree on an existing tree.json: ok = FALSE is the JSONDecodeError
load_tree ==
    IF torn THEN [ok |-> FALSE, tree |-> NoNode] ELSE [ok |-> TRUE, tree |-> file]

---------------------------------------------------------------------------
\* Single-worker deployment: the handlers are coroutines without an await,
\* so each request runs to completion before the next one starts.

Workers == {"w1", "w2"}

Idle == [id |-> 0, new_manager_id |-> 0, snap |-> NoNode, mem |-> NoNode,
         status |-> 0, op |-> "none", sawTorn |-> FALSE,
         storeKept |-> TRUE, memKept |-> TRUE]

NoCall == [tree |-> NoNode, target_id |-> 0, done |-> FALSE,
           found |-> FALSE, node |-> NoNode, after |-> NoNode]

NoRequest == [op |-> "none", id |-> 0, new_manager_id |-> 0, status |-> 0,
              exit |-> "none", before |-> NoNode, mem |-> NoNode,
              located |-> NoNode, removed |-> NoNode]

\* ids a request may name: those of the tree and one that no tree holds
RequestIds(n) == 1..(n + 1)

Init ==
    /\ \E exists \in BOOLEAN :
          \E content \in (IF exists THEN WellFormedTrees(NumNodes) ELSE {NoNode}) :
              file = lifespan(exists, content)
    /\ torn = FALSE
    /\ last = NoRequest
    /\ pc = [w \in Workers |-> "idle"]
    /\ local = [w \in Workers |-> Idle]
    /\ nav = NoCall

\* POST /update-employee-manager served start to end, storage working
Reparent ==
    \E id \in RequestIds(NumNodes), new_manager_id \in RequestIds(NumNodes) :
        LET tree == load_tree.tree
            r == update_employee_manager(tree, id, new_manager_id)
        IN  /\ file' = IF r.save THEN r.tree ELSE file
            /\ last' = [op |-> "reparent", id |-> id,
                        new_manager_id |-> new_manager_id,
                        status |-> r.status, exit |-> r.exit,
                        before |-> file, mem |-> r.tree,
                        located |-> r.located, removed |-> r.removed]
            /\ UNCHANGED <<torn, pc, local, nav>>

\* GET /employees
GetEmployees ==
    /\ last' = [NoRequest EXCEPT !.op = "get", !.status = 200,
                                 !.before = file, !.mem = load_tree.tree]
    /\ UNCHANGED <<file, torn, pc, local, nav>>

Next == Reparent \/ GetEmployees

Spec == Init /\ [][Next]_vars

---------------------------------------------------------------------------
\* The hierarchy as a relation: what a tree says about who reports to whom.

RECURSIVE NodesOf(_)
\* every node of a tree (each with its subtree)
NodesOf(node) ==
    {node} \cup UNION {NodesOf(node.children[i]) : i \in 1..Len(node.children)}

NodeWithId(tree, x) == CHOOSE n \in NodesOf(tree) : n.id = x

ChildIds(node) == [i \in 1..Len(node.children) |-> node.children[i].id]

Occurrences(s, x) == Cardinality({i \in 1..Len(s) : s[i] = x})

Without(s, x) ==
    LET keep == {i \in 1..Len(s) : s[i] # x}
        F[i \in 0..Len(s)] ==
            IF i = 0 THEN <<>>
            ELSE IF i \in keep THEN Append(F[i - 1], s[i]) ELSE F[i - 1]
    IN  F[Len(s)]

\* id of the node whose children list holds the node with id x (unique ids)
ManagerIn(tree, x) ==
    (CHOOSE n \in NodesOf(tree) : \E i \in 1..Len(n.children) : n.children[i].id = x).id

\* per id: the stored manager_id and the ordered ids of the direct reports
Flat(tree) ==
    [x \in IdsOf(tree) |->
        [manager_id |-> NodeWithId(tree, x).manager_id,
         reports |-> ChildIds(NodeWithId(tree, x))]]

\* the stored manager_id of every id
StoredManager(tree) ==
    LET ns == NodesOf(tree)
    IN  [x \in {n.id : n \in ns} |-> (CHOOSE n \in ns : n.id = x).manager_id]

RECURSIVE ReachesRoot(_, _, _, _)
\* following stored manager_id links from x reaches the root within k steps
ReachesRoot(mgr, root, x, k) ==
    \/ x = root
    \/ /\ k > 0
       /\ x \in DOMAIN mgr
       /\ ReachesRoot(mgr, root, mgr[x], k - 1)

WellFormed(tree) ==
    LET ids == IdSeq(tree)
        mgr == StoredManager(tree)
    IN  /\ Cardinality(DOMAIN mgr) = Len(ids)
        /\ tree.manager_id = RootManagerId
        /\ \A n \in NodesOf(tree) : \A i \in 1..Len(n.children) :
              n.children[i].manager_id = n.id
        /\ \A x \in DOMAIN mgr :
              x # tree.manager_id /\ ReachesRoot(mgr, tree.id, x, Len(ids))

\* the request is one the reparent contract accepts
Acceptable(tree, E, M) ==
    /\ M \in IdsOf(tree)
    /\ E \in IdsOf(tree)
    /\ E # M
    /\ M \notin IdsOf(NodeWithId(tree, E))

\* the hierarchy after E has been moved under M
Moved(tree, E, M) ==
    LET P == ManagerIn(tree, E)
        f == Flat(tree)
        g == [f EXCEPT ![P].reports = Without(@, E)]
    IN  [g EXCEPT ![M].reports = Append(@, E), ![E].manager_id = M]

Served == last.op = "reparent"

---------------------------------------------------------------------------
\* C1: a reparent request answers 200, and saves the tree it built, exactly
\* when the new manager exists, the employee exists, they differ and the new
\* manager is not in the employee's subtree; a request naming the root as the
\* employee is never accepted.
C1_SuccessIff ==
    Served =>
        /\ (last.status = 200) <=> Acceptable(last.before, last.id, last.new_manager_id)
        /\ last.status = 200 => file = last.mem
        /\ last.status # 200 => file = last.before
        /\ last.id = last.before.id => last.status # 200

C1_Witness ==
    /\ Served /\ last.status = 200 /\ file # last.before
    /\ Len(last.before.children) = 1

\* C2 as stated: after a successful reparent of E to M, M's children hold E
\* exactly once, E's stored manager_id is M, and E is not among the children
\* of its previous manager.
C2_AsStated ==
    (Served /\ last.status = 200) =>
        LET E == last.id
            M == last.new_manager_id
            P == ManagerIn(last.before, E)
        IN  /\ Occurrences(ChildIds(NodeWithId(file, M)), E) = 1
            /\ NodeWithId(file, E).manager_id = M
            /\ Occurrences(ChildIds(NodeWithId(file, P)), E) = 0

\* C2 amended: after a successful reparent of E to M, M's children hold E
\* exactly once, E's stored manager_id is M, and, unless the previous manager
\* is M itself, E is not among the children of its previous manager.
C2_Reattached ==
    (Served /\ last.status = 200) =>
        LET E == last.id
            M == last.new_manager_id
            P == ManagerIn(last.before, E)
        IN  /\ Occurrences(ChildIds(NodeWithId(file, M)), E) = 1
            /\ NodeWithId(file, E).manager_id = M
            /\ P # M => Occurrences(ChildIds(NodeWithId(file, P)), E) = 0

C2_Witness ==
    /\ Served /\ last.status = 200
    /\ ManagerIn(last.before, last.id) # last.new_manager_id
    /\ NodeWithId(last.before, last.id).children # <<>>

\* the first check of the contract that the request fails, "none" if it
\* passes all four
FirstFailure(tree, E, M) ==
    IF M \notin IdsOf(tree) THEN "404_manager"
    ELSE IF E = M THEN "400_self"
    ELSE IF E \notin IdsOf(tree) THEN "404_employee"
    ELSE IF M \in IdsOf(NodeWithId(tree, E)) THEN "400_loop"
    ELSE "none"

\* C3: the response reports the first failing check in the order manager
\* missing (404), self-management (400), employee missing (404), cycle (400).
C3_CheckOrder ==
    Served =>
        LET ff == FirstFailure(last.before, last.id, last.new_manager_id)
        IN  /\ ff # "none" => last.exit = ff
            /\ ff \in {"404_manager", "404_employee"} => last.status = 404
            /\ ff \in {"400_self", "400_loop"} => last.status = 400
            /\ ff = "none" => last.status \notin {400, 404}

C3_Witness ==
    /\ Served /\ last.exit = "404_manager"
    /\ last.id = last.new_manager_id
    /\ Len(IdSeq(last.before)) > 1

\* C5: after any sequence of reparent requests the stored tree is well
\* formed (each id once, root with the sentinel manager_id, every other
\* node's manager_id the id of the node listing it, every manager chain
\* reaching the root), and no request changes the set of ids or the root.
C5_WellFormedKept ==
    /\ [](~torn /\ WellFormed(file))
    /\ [][/\ IdsOf(file') = IdsOf(file)
          /\ file'.id = file.id
          /\ file'.manager_id = file.manager_id]_vars

C5_Witness ==
    /\ Served /\ last.status = 200 /\ file # last.before
    /\ Len(IdSeq(NodeWithId(file, last.id))) > 1

\* C6: a reparent of E to the manager it already has is accepted and only
\* moves E to the end of that manager's list; and sending any accepted
\* request again right away is accepted and leaves the stored tree as it is.
C6_SameManager ==
    (Served /\ last.status = 200) =>
        LET E == last.id
            M == last.new_manager_id
            again == update_employee_manager(file, E, M)
        IN  /\ ManagerIn(last.before, E) = M =>
                 Flat(file) = [Flat(last.before) EXCEPT
                                  ![M].reports = Append(Without(@, E), E)]
            /\ again.status = 200 /\ again.save /\ again.tree = file

C6_Witness ==
    /\ Served /\ last.status = 200
    /\ ManagerIn(last.before, last.id) = last.new_manager_id
    /\ Len(NodeWithId(last.before, last.new_manager_id).children) >= 3
    /\ file # last.before

\* C9: a request that passes the four checks is always carried out: detach
\* returns the very node validation located, attach finds the manager, the
\* response is 200 and the tree is saved; no request leaves the in-memory
\* tree with the employee detached and not re-attached.
C9_MutationCannotFail ==
    Served =>
        /\ last.exit \notin {"404_removed", "500_attach"}
        /\ last.exit \notin {"404_manager", "400_self", "404_employee", "400_loop"} =>
              /\ last.removed = last.located
              /\ last.located = NodeWithId(last.before, last.id)
              /\ last.status = 200
              /\ file = last.mem
        /\ IdsOf(last.mem) = IdsOf(last.before)
        /\ UniqueIds(last.mem)

C9_Witness ==
    /\ Served /\ last.status = 200
    /\ ManagerIn(last.before, last.id) # last.before.id
    /\ last.new_manager_id = last.before.id

---------------------------------------------------------------------------
\* Tree navigator harness: find_and_remove_employee called on any tree a
\* store can hold. POST /update-manager stores whatever tree it is sent, so
\* ids may repeat.

StorableTrees ==
    UNION {TreesN(n, 1..NavIds, RootManagerId) : n \in 1..NumNodes}

InitNav ==
    /\ file = SeedTree
    /\ torn = FALSE
    /\ last = NoRequest
    /\ pc = [w \in Workers |-> "idle"]
    /\ local = [w \in Workers |-> Idle]
    /\ \E t \in StorableTrees : nav = [NoCall EXCEPT !.tree = t]

Detach ==
    /\ ~nav.done
    /\ \E target_id \in 1..(NavIds + 1) :
          LET r == find_and_remove_employee(nav.tree, target_id)
          IN  nav' = [tree |-> nav.tree, target_id |-> target_id, done |-> TRUE,
                      found |-> r.found, node |-> r.node, after |-> r.tree]
    /\ UNCHANGED <<file, torn, last, pc, local>>

NextNav == Detach

SpecNav == InitNav /\ [][NextNav]_vars

RECURSIVE PathsOf(_)
\* the paths of all nodes of a tree
PathsOf(node) ==
    {<<>>} \cup UNION {{<<i>> \o p : p \in PathsOf(node.children[i])} :
                          i \in 1..Len(node.children)}

IsPrefix(p, q) == Len(p) <= Len(q) /\ SubSeq(q, 1, Len(p)) = p

\* p comes before q in breadth-first order: a shallower level first, and
\* within a level from left to right
BfsBefore(p, q) ==
    \/ Len(p) < Len(q)
    \/ /\ Len(p) = Len(q)
       /\ \E k \in 1..Len(p) : p[k] < q[k] /\ \A j \in 1..(k - 1) : p[j] = q[j]

\* the non-root nodes with the target id
Matches(tree, target_id) ==
    {p \in PathsOf(tree) : p # <<>> /\ NodeAt(tree, p).id = target_id}

\* C8: detach answers not-found and returns the tree as it was when the
\* target is the root's id or absent; otherwise it returns the first node
\* with that id in breadth-first order together with its whole subtree, the
\* parent's list is the old one with that entry spliced out, and every node
\* outside the removed subtree and off the path to it is unchanged.
C8_Detach ==
    nav.done =>
        LET T == nav.tree
            R == nav.after
            ms == Matches(T, nav.target_id)
        IN  IF T.id = nav.target_id \/ ms = {}
            THEN ~nav.found /\ R = T
            ELSE
            LET p == CHOOSE m \in ms : \A o \in ms \ {m} : BfsBefore(m, o)
                parent == SubSeq(p, 1, Len(p) - 1)
                i == p[Len(p)]
                cs == NodeAt(T, parent).children
                Shift(q) ==
                    IF IsPrefix(parent, q) /\ Len(q) > Len(parent)
                       /\ q[Len(parent) + 1] > i
                    THEN [q EXCEPT ![Len(parent) + 1] = @ - 1]
                    ELSE q
                kept == {q \in PathsOf(T) : ~IsPrefix(p, q)}
            IN  /\ nav.found
                /\ nav.node = NodeAt(T, p)
                /\ PathsOf(R) = {Shift(q) : q \in kept}
                /\ NodeAt(R, parent).children =
                      [k \in 1..(Len(cs) - 1) |-> IF k < i THEN cs[k] ELSE cs[k + 1]]
                /\ \A q \in kept :
                      IF IsPrefix(q, parent)
                      THEN /\ NodeAt(R, q).id = NodeAt(T, q).id
                           /\ NodeAt(R, q).manager_id = NodeAt(T, q).manager_id
                           /\ Len(NodeAt(R, q).children) =
                                 Len(NodeAt(T, q).children) - (IF q = parent THEN 1 ELSE 0)
                      ELSE NodeAt(R, Shift(q)) = NodeAt(T, q)

C8_Witness ==
    /\ nav.done /\ nav.found
    /\ \E m \in Matches(nav.tree, nav.target_id) :
          BfsBefore(m, find_employee_in_tree(nav.tree, nav.target_id).path)

---------------------------------------------------------------------------
\* Multi-worker deployment (several server processes over one tree.json)
\* and storage faults. A handler's steps that touch tree.json are separate:
\* load_tree reads the file; save_tree first opens it for writing, which
\* truncates it, and then writes the JSON text.
\*
\* local[w] of a request in flight: its arguments, the tree it loaded (snap)
\* and the tree it built (mem). local[w] of a finished request: the response
\* status, whether load_tree found the file torn (sawTorn), whether
\* tree.json at the response was what the request had loaded (storeKept) and
\* whether the in-memory tree was still the loaded one (memKept).

StartedWith(n) ==
    /\ \E exists \in BOOLEAN :
          \E content \in (IF exists THEN WellFormedTrees(n) ELSE {NoNode}) :
              file = lifespan(exists, content)
    /\ torn = FALSE
    /\ last = NoRequest
    /\ pc = [w \in Workers |-> "idle"]
    /\ local = [w \in Workers |-> Idle]
    /\ nav = NoCall

Respond(w, op, status, sawTorn, storeKept, memKept) ==
    /\ pc' = [pc EXCEPT ![w] = "idle"]
    /\ local' = [local EXCEPT ![w] =
                    [Idle EXCEPT !.op = op, !.status = status, !.sawTorn = sawTorn,
                                 !.storeKept = storeKept, !.memKept = memKept]]

\* POST /update-employee-manager from load_tree up to the call of save_tree
BeginReparent(w, n) ==
    /\ pc[w] = "idle"
    /\ \E id \in RequestIds(n), new_manager_id \in RequestIds(n) :
          IF ~load_tree.ok
          THEN Respond(w, "reparent", 500, TRUE, TRUE, TRUE)
          ELSE LET r == update_employee_manager(load_tree.tree, id, new_manager_id)
               IN  IF r.save
                   THEN /\ pc' = [pc EXCEPT ![w] = "save_open"]
                        /\ local' = [local EXCEPT ![w] =
                              [Idle EXCEPT !.op = "reparent", !.id = id,
                                           !.new_manager_id = new_manager_id,
                                           !.snap = file, !.mem = r.tree]]
                   ELSE Respond(w, "reparent", r.status, FALSE, TRUE, r.tree = file)
    /\ UNCHANGED <<file, torn, last, nav>>

\* save_tree: open(Path("tree.json"), "w") truncates the file
SaveOpen(w) ==
    /\ pc[w] = "save_open"
    /\ file' = NoNode
    /\ torn' = TRUE
    /\ pc' = [pc EXCEPT ![w] = "save_write"]
    /\ UNCHANGED <<last, local, nav>>

\* save_tree: json.dump and the close of the file. The text goes to the
\* offset this writer holds; when another writer has written since this one
\* truncated, the two texts may overlap into a file that is no JSON.
SaveWrite(w) ==
    /\ pc[w] = "save_write"
    /\ \E garbled \in (IF torn THEN {FALSE} ELSE BOOLEAN) :
          /\ file' = IF garbled THEN NoNode ELSE local[w].mem
          /\ torn' = garbled
    /\ Respond(w, "reparent", 200, FALSE, FALSE, FALSE)
    /\ UNCHANGED <<last, nav>>

\* save_tree: open raises (PermissionError); the handler answers 500
SaveOpenDenied(w) ==
    /\ pc[w] = "save_open"
    /\ Respond(w, "reparent", 500, FALSE, ~torn /\ file = local[w].snap, FALSE)
    /\ UNCHANGED <<file, torn, last, nav>>

\* save_tree: the write raises (OSError, e.g. no space left) after the file
\* was truncated; the handler answers 500
SaveWriteFails(w) ==
    /\ pc[w] = "save_write"
    /\ \E partial \in BOOLEAN :
          /\ file' = IF partial THEN NoNode ELSE file
          /\ torn' = IF partial THEN TRUE ELSE torn
          /\ Respond(w, "reparent", 500, FALSE,
                     ~torn' /\ file' = local[w].snap, FALSE)
    /\ UNCHANGED <<last, nav>>

\* GET /employees
Get(w) ==
    /\ pc[w] = "idle"
    /\ Respond(w, "get", IF load_tree.ok THEN 200 ELSE 500, ~load_tree.ok, TRUE, TRUE)
    /\ UNCHANGED <<file, torn, last, nav>>

InitIO == StartedWith(ConcNodes)

NextIO ==
    \E w \in Workers :
        BeginReparent(w, ConcNodes) \/ SaveOpen(w) \/ SaveWrite(w) \/ Get(w)

\* several workers, storage working
SpecIO == InitIO /\ [][NextIO]_vars

InitFault == StartedWith(NumNodes)

NextFault ==
    \/ BeginReparent("w1", NumNodes)
    \/ SaveOpen("w1")
    \/ SaveWrite("w1")
    \/ SaveOpenDenied("w1")
    \/ SaveWriteFails("w1")
    \/ Get("w1")

\* one worker, storage that may fail
SpecFault == InitFault /\ [][NextFault]_vars

\* C4 as stated: whenever a reparent request ends without success (404, 400
\* or 500, a failing save included), tree.json holds exactly the tree the
\* request loaded; and a request rejected by validation has not changed its
\* in-memory tree.
C4_AsStated ==
    \A w \in Workers :
        (pc[w] = "idle" /\ local[w].op = "reparent" /\ local[w].status # 200) =>
            /\ local[w].storeKept
            /\ local[w].status \in {400, 404} => local[w].memKept

\* C7 as stated: no load_tree, in GET /employees or in a reparent request,
\* ever finds tree.json empty or partially written.
C7_AsStated ==
    \A w \in Workers : ~local[w].sawTorn

InFlight(w) == pc[w] \in {"save_open", "save_write"}

\* the trees present: the stored one when it is whole, and those in flight
TreesAt ==
    (IF torn THEN {} ELSE {file})
    \cup {local[w].snap : w \in {x \in Workers : InFlight(x)}}
    \cup {local[w].mem : w \in {x \in Workers : InFlight(x)}}

\* worker w completes its save in this step
Writes(w) == pc[w] = "save_write" /\ pc'[w] = "idle" /\ local'[w].status = 200

\* C10: with reparent requests of several workers interleaved, tree.json,
\* whenever it holds a whole tree, holds a well-formed tree over the ids it
\* started with; and every whole tree that a step stores is the tree of one
\* writer: the reparent that writer asked for applied to the tree that
\* writer loaded, whatever was stored in between (a lost update).
C10_LastWriterWins ==
    /\ [](LET ts == TreesAt
          IN  /\ \A t \in ts : WellFormed(t)
              /\ \A t \in ts, u \in ts : t.id = u.id /\ IdsOf(t) = IdsOf(u))
    /\ [][(~torn' /\ (torn \/ file' # file)) =>
             \E w \in Workers :
                 /\ Writes(w)
                 /\ Acceptable(local[w].snap, local[w].id, local[w].new_manager_id)
                 /\ Flat(file') = Moved(local[w].snap, local[w].id,
                                        local[w].new_manager_id)]_vars

\* a writer is about to store a tree built from a snapshot that another
\* worker's completed reparent has since replaced
C10_Witness ==
    \E w \in Workers, o \in Workers :
        /\ pc[w] = "save_open" /\ ~torn /\ file # local[w].snap
        /\ pc[o] = "idle" /\ local[o].op = "reparent" /\ local[o].status = 200
        /\ Flat(local[w].mem) # Moved(file, local[w].id, local[w].new_manager_id)
        /\ Acceptable(file, local[w].id, local[w].new_manager_id)

====
